---- MODULE Spec2Model ----
(***************************************************************************)
(* Monte Carlo tree search of the chess-engine experiments notebook:       *)
(* Node, uct, select, expand, simulate, backpropagate and the iteration    *)
(* loop that drives them.                                                  *)
(*                                                                         *)
(* The rules engine (python-chess) is an external collaborator.  It is     *)
(* replaced by a small take-away game with the same interface: an ordered  *)
(* list of legal moves, push, and outcome(claim_draw=True).  Like chess it *)
(* has positions without legal moves (won, lost or stalemate) and          *)
(* positions whose outcome is decided by a claimable draw although legal   *)
(* moves remain.                                                           *)
(***************************************************************************)
EXTENDS Integers, Sequences, FiniteSets, TLC

\* ------------------------------------------------------------------ bounds
MaxPile == 3        \* the loop starts on a position with 0..MaxPile tokens
OpsPile == 2        \* free calls start on a position with 0..OpsPile tokens
MaxIter == 7        \* iteration budget of the loop (range(1000) in the notebook)
MaxOps == 3         \* number of free calls made
MaxK == 12          \* number of payouts folded into one running mean
MaxCache == 2       \* the cache is built with room for 1..MaxCache entries
MaxCalls == 4       \* number of free calls made on the cache
MaxDepth == 2       \* the searcher is built with depth 0..MaxDepth
MaxSearches == 3    \* number of searches made with one searcher

\* ------------------------------------------------- IEEE-754 double numbers
\* A Python float is a binary64: 53 significant bits, round to nearest even.
\* A double x with 2^-8 <= x < 2^15 (or x = 0) is held exactly as the natural
\* number x * 2^60, written in limbs of 15 bits, least significant first,
\* without leading zero limbs.  Every operation computes the exact result
\* and rounds it to MantBits significant bits, as the hardware does.  The
\* means of up to 128 payouts from {0, 0.5, 1} lie in that range.
MantBits == 53
Base == 2^15
UnitLimbs == 4                       \* 2^60 = Base^4 is the number 1.0

RECURSIVE Norm(_)
Norm(X) == IF X = <<>> THEN <<>>
           ELSE IF X[Len(X)] = 0 THEN Norm(SubSeq(X, 1, Len(X) - 1)) ELSE X

RECURSIVE MulCarry(_, _, _, _)
MulCarry(X, c, i, carry) ==
    IF i > Len(X) THEN (IF carry = 0 THEN <<>> ELSE <<carry>>)
    ELSE LET v == X[i] * c + carry
         IN  <<v % Base>> \o MulCarry(X, c, i + 1, v \div Base)

\* X * c for a small natural c (c <= 2^14)
MulSmall(X, c) == Norm(MulCarry(X, c, 1, 0))

RECURSIVE AddCarry(_, _, _, _)
AddCarry(X, Y, i, carry) ==
    IF i > Len(X) /\ i > Len(Y) THEN (IF carry = 0 THEN <<>> ELSE <<carry>>)
    ELSE LET v == (IF i <= Len(X) THEN X[i] ELSE 0)
                  + (IF i <= Len(Y) THEN Y[i] ELSE 0) + carry
         IN  <<v % Base>> \o AddCarry(X, Y, i + 1, v \div Base)

AddBig(X, Y) == Norm(AddCarry(X, Y, 1, 0))

RECURSIVE DivRem(_, _, _, _)
DivRem(X, d, i, r) ==
    IF i = 0 THEN [q |-> <<>>, r |-> r]
    ELSE LET cur  == r * Base + X[i]
             rest == DivRem(X, d, i - 1, cur % d)
         IN  [q |-> Append(rest.q, cur \div d), r |-> rest.r]

\* quotient and remainder of X by a small natural d (0 < d <= 2^14)
DivSmall(X, d) == LET qr == DivRem(X, d, Len(X), 0)
                  IN  [q |-> Norm(qr.q), r |-> qr.r]

RECURSIVE Bits(_)
Bits(x) == IF x = 0 THEN 0 ELSE 1 + Bits(x \div 2)

BitLen(X) == IF X = <<>> THEN 0 ELSE 15 * (Len(X) - 1) + Bits(X[Len(X)])

Zeros(a) == [j \in 1..a |-> 0]

NonZero(X) == \E j \in 1..Len(X) : X[j] # 0

\* X (plus a non-zero fraction below its last bit when sticky) rounded to
\* MantBits significant bits, ties to even
RoundSig(X, sticky) ==
    IF BitLen(X) <= MantBits THEN X
    ELSE LET drop == BitLen(X) - MantBits
             a    == drop \div 15
             b    == drop % 15
             low  == SubSeq(X, 1, a)
             qr   == DivSmall(SubSeq(X, a + 1, Len(X)), 2^b)
             \* the dropped part against half a unit of the last kept bit
             top  == IF b > 0 THEN qr.r ELSE low[a]
             half == IF b > 0 THEN 2^(b - 1) ELSE 2^14
             rest == sticky \/ (IF b > 0 THEN NonZero(low)
                                ELSE NonZero(SubSeq(low, 1, a - 1)))
             odd  == qr.q[1] % 2 = 1
             up   == top > half \/ (top = half /\ (rest \/ odd))
             hi   == IF up THEN AddBig(qr.q, <<1>>) ELSE qr.q
         IN  Zeros(a) \o MulSmall(hi, 2^b)

FZero == <<>>
FHalf == Zeros(UnitLimbs - 1) \o <<2^14>>

\* the double for payout p, given in halves (0, 1, 2 for 0, 0.5, 1)
FOfHalves(p) == MulSmall(FHalf, p)

\* float * int, float + float, float / int of Python
FMul(X, n) == RoundSig(MulSmall(X, n), FALSE)
FAdd(X, Y) == RoundSig(AddBig(X, Y), FALSE)
FDiv(X, d) == LET qr == DivSmall(Zeros(UnitLimbs) \o X, d)
                  v  == RoundSig(qr.q, qr.r # 0)
              IN  SubSeq(v, UnitLimbs + 1, Len(v))

\* X <= Y for doubles
RECURSIVE LeqFrom(_, _, _)
LeqFrom(X, Y, i) == IF i = 0 THEN TRUE
                    ELSE IF X[i] # Y[i] THEN X[i] < Y[i]
                    ELSE LeqFrom(X, Y, i - 1)

FLeq(X, Y) == IF Len(X) # Len(Y) THEN Len(X) < Len(Y) ELSE LeqFrom(X, Y, Len(X))

\* floor(X * 2^13) of a double X < 4, as an ordinary number
FFix13(X) == LET q == DivSmall(SubSeq(X, UnitLimbs, Len(X)), 4).q
             IN  (IF Len(q) >= 1 THEN q[1] ELSE 0)
                 + (IF Len(q) >= 2 THEN q[2] * Base ELSE 0)

\* ---------------------------------------------------------- rules engine
\* chess.Board stand-in.  A position is a pile of tokens, the side to move,
\* a clock of consecutive quiet (take-one) moves, and the stack of the moves
\* pushed so far (board.move_stack, which board.copy() copies along).
MaxTake == 3        \* a move takes 1..MaxTake tokens
DrawClock == 2      \* quiet moves after which a draw can be claimed

WHITE == "WHITE"
BLACK == "BLACK"
None == "None"

Min(a, b) == IF a < b THEN a ELSE b

\* list(board.legal_moves): the legal moves in the engine's order
legal_moves(pos) == [j \in 1..Min(MaxTake, pos.pile) |-> j]

\* board.push(move)
push(pos, m) == [pile  |-> pos.pile - m,
                 turn  |-> IF pos.turn = WHITE THEN BLACK ELSE WHITE,
                 clock |-> IF m = 1 THEN pos.clock + 1 ELSE 0,
                 stack |-> Append(pos.stack, m)]

\* board.outcome(claim_draw=True): None while the game is undecided,
\* otherwise the winner (WHITE, BLACK, or None for a draw)
NoOutcome == [winner |-> "undecided"]
outcome(pos) ==
    IF pos.pile = 0
    THEN (IF pos.clock = 0
          THEN [winner |-> IF pos.turn = WHITE THEN BLACK ELSE WHITE]  \* mate
          ELSE [winner |-> None])                                     \* stalemate
    ELSE IF pos.clock >= DrawClock THEN [winner |-> None]             \* claimed draw
    ELSE NoOutcome

Range(s) == {s[j] : j \in 1..Len(s)}

\* random.shuffle(list): every ordering of the list
Shuffles(s) == {p \in [1..Len(s) -> Range(s)] : Range(p) = Range(s)}

\* ------------------------------------------------------------- the tree
\* Nodes and boards are objects.  A node is named by the moves that lead to
\* it from the root; the board object a node was constructed with carries
\* the same name; the board simulate works on is SimBoard.
root == <<>>
SimBoard == <<0>>
NoNode == <<-1>>          \* None where a node is expected
Unbound == <<-2>>         \* UnboundLocalError raised instead of a node
ValueError == <<-3>>      \* ValueError raised instead of a node

VARIABLES
    tree,      \* node object -> its fields
    boards,    \* board object -> the position it currently holds
    pc,        \* position in the iteration loop, or "call" in SpecOps
    node,      \* the loop variable node
    payout,    \* the loop variable payout, in halves
    i,         \* iterations (or calls, or payouts) completed
    thru,      \* history: per node, number and sum of payouts sent through it
    calls,     \* history: the calls of the current iteration / the last call
    out,       \* the rows the report cell printed
    searcher,  \* the AlphaBetaSearcher object with its cache
    result     \* what the last call on the searcher or its cache returned

vars == <<tree, boards, pc, node, payout, i, thru, calls, out, searcher, result>>

Nodes == DOMAIN tree

\* Node.__init__(board, parent); moves is the shuffled list of legal moves
Node(b, parent, moves) ==
    [board              |-> b,
     parent             |-> parent,
     average_evaluation |-> FZero,
     visit_count        |-> 0,
     unexplored_moves   |-> moves,
     children           |-> <<>>]

is_leaf(t, n) == Len(t[n].unexplored_moves) # 0

is_terminal(t, n) == Len(t[n].unexplored_moves) = 0 /\ Len(t[n].children) = 0

\* ------------------------------------------------------------------ uct
\* floor(2 * ln(N) * 2^26) for N = 1..9: math.log on the visit counts the
\* bounds allow.  With these digits the order of any two uct values the
\* model computes is the order of the doubles Python computes.
TwoLn == <<0, 93032639, 147453245, 186065279, 216015099,
           240485885, 261175639, 279097919, 294906490>>

RECURSIVE SqrtBetween(_, _, _)
SqrtBetween(x, lo, hi) ==
    IF hi - lo <= 1 THEN lo
    ELSE LET mid == (lo + hi) \div 2
         IN  IF mid * mid <= x THEN SqrtBetween(x, mid, hi)
                               ELSE SqrtBetween(x, lo, mid)

ISqrt(x) == SqrtBetween(x, 0, Base)

Inf == 2^30                            \* float("inf")

\* math.log(parent.visit_count) raises (math domain error)
uct_raises(t, c, p) == t[c].visit_count # 0 /\ t[p].visit_count = 0

\* uct with a never-visited child scored 0 instead of infinity
uct_zero(t, c, p) ==
    IF t[c].visit_count = 0 THEN 0
    ELSE FFix13(t[c].average_evaluation)
         + ISqrt(TwoLn[t[p].visit_count] \div t[c].visit_count)

\* uct(node, parent), in units of 2^-13
uct(t, c, p) ==
    IF t[c].visit_count = 0 THEN Inf
    ELSE FFix13(t[c].average_evaluation)
         + ISqrt(TwoLn[t[p].visit_count] \div t[c].visit_count)

\* max(node.children.values(), key=...): the first child, in the order the
\* dict holds them, whose key is not exceeded
max_child(t, n) ==
    LET ch     == t[n].children
        key(j) == uct(t, ch[j].node, n)
        best   == CHOOSE j \in 1..Len(ch) :
                      /\ \A k \in 1..Len(ch) : key(k) <= key(j)
                      /\ \A k \in 1..(j - 1) : key(k) < key(j)
    IN  ch[best].node

\* select that returns the best child instead of descending into it
select_one_level(t, n) ==
    IF is_leaf(t, n) \/ is_terminal(t, n) THEN n ELSE max_child(t, n)

RECURSIVE select(_, _)
select(t, n) ==
    IF is_leaf(t, n) \/ is_terminal(t, n) THEN n
    ELSE IF \E j \in 1..Len(t[n].children) :
                uct_raises(t, t[n].children[j].node, n)
         THEN ValueError
    ELSE select(t, max_child(t, n))

\* ---------------------------------------------------------------- expand
\* board.copy(): a new board object holding the same position
BoardCopy(h, b, new) == [id |-> new, heap |-> (new :> h[b]) @@ h]

\* the child given the board object of its parent, without a copy
child_board_alias(h, b, new) == [id |-> b, heap |-> h]

\* child_board = node.board.copy()
child_board(h, b, new) == BoardCopy(h, b, new)

\* node.children[move] = child, on a dict kept in insertion order
DictSet(d, move, c) ==
    IF \E j \in 1..Len(d) : d[j].move = move
    THEN [j \in 1..Len(d) |-> IF d[j].move = move
                              THEN [move |-> move, node |-> c] ELSE d[j]]
    ELSE Append(d, [move |-> move, node |-> c])

\* the while loop of expand: every outcome it can have, one for each way
\* the frontiers of the new children can be shuffled; child is the local
\* variable, unbound until the first pass
RECURSIVE expand_loop(_, _, _, _)
expand_loop(t, h, n, child) ==
    IF Len(t[n].unexplored_moves) > 0
    THEN LET um   == t[n].unexplored_moves
             move == um[Len(um)]
             t1   == [t EXCEPT ![n].unexplored_moves = SubSeq(um, 1, Len(um) - 1)]
             cb   == child_board(h, t[n].board, Append(n, move))
             h1   == [cb.heap EXCEPT ![cb.id] = push(@, move)]
             c    == Append(n, move)
         IN  UNION {LET t2 == (c :> Node(cb.id, NoNode, moves)) @@ t1
                        t3 == [t2 EXCEPT ![c].parent = n]
                        t4 == [t3 EXCEPT ![n].children = DictSet(@, move, c)]
                    IN  expand_loop(t4, h1, n, c) :
                        moves \in Shuffles(legal_moves(h1[cb.id]))}
    ELSE {[tree |-> t, boards |-> h, ret |-> child]}

\* expand that returns the first child it made
expand_first(t, h, n) ==
    {[e EXCEPT !.ret = IF e.ret = Unbound THEN Unbound
                       ELSE e.tree[n].children[Len(t[n].children) + 1].node] :
        e \in expand_loop(t, h, n, Unbound)}

\* expand that returns a child made earlier when the frontier is empty
expand_stale(t, h, n) ==
    {[e EXCEPT !.ret = IF e.ret = Unbound /\ Len(t[n].children) > 0
                       THEN t[n].children[Len(t[n].children)].node
                       ELSE e.ret] :
        e \in expand_loop(t, h, n, Unbound)}

\* expand that makes the child of one move and leaves the others unexplored
expand_one_move(t, h, n) ==
    IF Len(t[n].unexplored_moves) > 0
    THEN LET um   == t[n].unexplored_moves
             move == um[Len(um)]
             t1   == [t EXCEPT ![n].unexplored_moves = SubSeq(um, 1, Len(um) - 1)]
             cb   == child_board(h, t[n].board, Append(n, move))
             h1   == [cb.heap EXCEPT ![cb.id] = push(@, move)]
             c    == Append(n, move)
         IN  {LET t2 == (c :> Node(cb.id, NoNode, moves)) @@ t1
                  t3 == [t2 EXCEPT ![c].parent = n]
                  t4 == [t3 EXCEPT ![n].children = DictSet(@, move, c)]
              IN  [tree |-> t4, boards |-> h1, ret |-> c] :
                  moves \in Shuffles(legal_moves(h1[cb.id]))}
    ELSE {[tree |-> t, boards |-> h, ret |-> Unbound]}

\* expand that prunes the siblings of the node it expands
expand_prune_siblings(t, h, n) ==
    {[e EXCEPT !.tree =
          IF t[n].parent = NoNode THEN e.tree
          ELSE [e.tree EXCEPT ![t[n].parent].children =
                                  SelectSeq(@, LAMBDA x : x.node = n)]] :
        e \in expand_loop(t, h, n, Unbound)}

\* expand(node): ret is the node returned, or Unbound when `return child`
\* raises because no pass of the loop bound it
expand(t, h, n) == expand_loop(t, h, n, Unbound)

\* -------------------------------------------------------------- simulate
payouts == (None :> 1) @@ (WHITE :> 2) @@ (BLACK :> 0)     \* in halves

\* simulate playing on the node's own board object
simulate_board_alias(h, b) == [id |-> b, heap |-> h]

\* board = node.board.copy()
simulate_board(h, b) == BoardCopy(h, b, SimBoard)

\* the playout loop testing board.outcome() without claim_draw=True
RECURSIVE playout_no_claim(_, _)
playout_no_claim(h, b) ==
    IF h[b].pile = 0 THEN {h}
    ELSE UNION {playout_no_claim([h EXCEPT ![b] = push(@, m)], b) :
                    m \in Range(legal_moves(h[b]))}

\* the heaps the playout loop can end with, board object b being played on
RECURSIVE playout(_, _)
playout(h, b) ==
    IF outcome(h[b]) # NoOutcome THEN {h}
    ELSE UNION {playout([h EXCEPT ![b] = push(@, m)], b) :
                    m \in Range(legal_moves(h[b]))}

\* simulate(node): the payouts it can return, each with the position its
\* local board ended on and the heap it leaves once that board is out of
\* scope
simulate(t, h, n) ==
    LET cb == simulate_board(h, t[n].board)
    IN  {[ret    |-> payouts[outcome(hf[cb.id]).winner],
          board  |-> hf[cb.id],
          boards |-> [b \in DOMAIN hf \ {SimBoard} |-> hf[b]]] :
            hf \in playout(cb.heap, cb.id)}

\* --------------------------------------------------------- backpropagate
\* the running mean with the old mean not weighted by its count
mean_update_unweighted(avg, n, p) == FDiv(FAdd(avg, FOfHalves(p)), n + 1)

\* (average_evaluation * visit_count + payout) / (visit_count + 1)
mean_update(avg, n, p) == FDiv(FAdd(FMul(avg, n), FOfHalves(p)), n + 1)

\* the payout inverted for the other side, ply by ply
parent_payout_inverted(p) == 2 - p

\* the payout handed to the parent
parent_payout(p) == p

\* backpropagate that updates the node and forgets its ancestors
backpropagate_node_only(t, n, p) ==
    [t EXCEPT ![n].average_evaluation = mean_update(@, t[n].visit_count, p),
              ![n].visit_count = @ + 1]

RECURSIVE backpropagate(_, _, _)
backpropagate(t, n, p) ==
    LET t1 == [t EXCEPT ![n].average_evaluation =
                            mean_update(@, t[n].visit_count, p),
                        ![n].visit_count = @ + 1]
    IN  IF t[n].parent # NoNode THEN backpropagate(t1, t[n].parent, parent_payout(p))
        ELSE t1

\* ---------------------------------------------------------------- report
ZeroDivisionError == <<-4>>   \* ZeroDivisionError raised instead of a float

FOne == Zeros(UnitLimbs) \o <<1>>

\* sorted(d.items(), key=lambda t: t[1].visit_count, reverse=True): the sort
\* is stable, items with equal counts stay in the order the dict holds them
sorted_by_visits(t, d) ==
    LET key(j)   == t[d[j].node].visit_count
        place(j) == 1 + Cardinality({k \in 1..Len(d) : key(k) > key(j)})
                      + Cardinality({k \in 1..(j - 1) : key(k) = key(j)})
    IN  [r \in 1..Len(d) |-> d[CHOOSE j \in 1..Len(d) : place(j) = r]]

RECURSIVE sum_visits(_, _, _)
sum_visits(t, d, j) ==
    IF j = 0 THEN 0 ELSE sum_visits(t, d, j - 1) + t[d[j].node].visit_count

\* the divisor taken from the root's own visit count
total_visits_of_root(t, d) == t[root].visit_count

\* sum(child.visit_count for child in root.children.values())
total_visits(t, d) == sum_visits(t, d, Len(d))

\* the child select would descend into
most_visited_by_uct(t, n) == max_child(t, n)

\* max(node.children.values(), key=lambda n: n.visit_count): the first
\* child, in the order the dict holds them, whose count is not exceeded
most_visited(t, n) ==
    LET ch     == t[n].children
        key(j) == t[ch[j].node].visit_count
        best   == CHOOSE j \in 1..Len(ch) :
                      /\ \A k \in 1..Len(ch) : key(k) <= key(j)
                      /\ \A k \in 1..(j - 1) : key(k) < key(j)
    IN  ch[best].node

\* while len(node.children) > 0: node = max(...)
RECURSIVE principal_leaf(_, _)
principal_leaf(t, n) ==
    IF Len(t[n].children) > 0 THEN principal_leaf(t, most_visited(t, n)) ELSE n

\* child.visit_count / total_visits, and that times 100
share(v, total) == IF total = 0 THEN ZeroDivisionError
                   ELSE FDiv(MulSmall(FOne, v), total)

\* the rows of the report: for each opening its move, its visit count, its
\* share of the visits, the percentage printed, and the moves of the game
\* that leads to the end of its line (Game.from_board(node.board))
report(t, h) ==
    LET sorted_openings == sorted_by_visits(t, t[root].children)
        total           == total_visits(t, t[root].children)
    IN  [r \in 1..Len(sorted_openings) |->
            LET child == sorted_openings[r].node
                last  == principal_leaf(t, child)
                sh    == share(t[child].visit_count, total)
            IN  [move        |-> sorted_openings[r].move,
                 visit_count |-> t[child].visit_count,
                 share       |-> sh,
                 percent     |-> IF sh = ZeroDivisionError THEN sh
                                 ELSE FMul(sh, 100),
                 line        |-> h[t[last].board].stack]]

\* ------------------------------------------------------------- histories
IsPrefix(a, b) == Len(a) <= Len(b) /\ SubSeq(b, 1, Len(a)) = a

\* thru once the nodes of t exist
ThruWith(t) == [m \in DOMAIN t |-> IF m \in DOMAIN thru THEN thru[m]
                                   ELSE [cnt |-> 0, sum |-> 0]]

\* thru once payout p was sent up from node n
ThruAfter(n, p) == [m \in DOMAIN thru |->
                       IF IsPrefix(m, n)
                       THEN [cnt |-> thru[m].cnt + 1, sum |-> thru[m].sum + p]
                       ELSE thru[m]]

Call(op, arg, ret, val) == [op |-> op, arg |-> arg, ret |-> ret, val |-> val]

\* ------------------------------------------------------------ first state
\* root = Node(chess.Board(...)): a fresh root on some starting position
RootPositions(piles) == {[pile |-> n, turn |-> WHITE, clock |-> c, stack |-> <<>>] :
                             n \in 0..piles, c \in {0, DrawClock}}

InitTree(pos, o) ==
    /\ boards = (root :> pos)
    /\ tree = (root :> Node(root, NoNode, o))
    /\ node = NoNode
    /\ payout = 0
    /\ i = 0
    /\ thru = (root :> [cnt |-> 0, sum |-> 0])
    /\ calls = <<>>
    /\ out = <<>>
    /\ searcher = <<>>
    /\ result = <<>>

Init == /\ pc = "select"
        /\ \E pos \in RootPositions(MaxPile) :
              \E o \in Shuffles(legal_moves(pos)) : InitTree(pos, o)

\* ------------------------------------------------------ the iteration loop
\* for i in range(...): node = select(root)
Select ==
    /\ pc = "select"
    /\ i < MaxIter
    /\ LET r == select(tree, root)
       IN  /\ node' = r
           /\ pc' = IF r = ValueError THEN "crashed" ELSE "if"
           /\ calls' = <<Call("select", root, r, 0)>>
    /\ UNCHANGED <<tree, boards, payout, i, thru, out, searcher, result>>

\* the condition without the first-visit test
expand_cond_any_visit(t, n) == Len(t[n].unexplored_moves) > 0

\* the condition asking for a visit more before the node is expanded
expand_cond_after_two_visits(t, n) ==
    Len(t[n].unexplored_moves) > 0 /\ t[n].visit_count > 1

\* if len(node.unexplored_moves) > 0 and node.visit_count > 0
expand_cond(t, n) == Len(t[n].unexplored_moves) > 0 /\ t[n].visit_count > 0

\* node = expand(node)
Expand ==
    /\ pc = "if"
    /\ expand_cond(tree, node)
    /\ \E e \in expand(tree, boards, node) :
              /\ tree' = e.tree
              /\ boards' = e.boards
              /\ node' = e.ret
              /\ pc' = IF e.ret = Unbound THEN "crashed" ELSE "simulate"
              /\ thru' = ThruWith(e.tree)
              /\ calls' = Append(calls, Call("expand", node, e.ret, 0))
    /\ UNCHANGED <<payout, i, out, searcher, result>>

\* payout = simulate(node)
Simulate ==
    /\ pc = "simulate" \/ (pc = "if" /\ ~expand_cond(tree, node))
    /\ \E s \in simulate(tree, boards, node) :
          /\ payout' = s.ret
          /\ boards' = s.boards
          /\ calls' = Append(calls, Call("simulate", node, NoNode, s.ret))
    /\ pc' = "backpropagate"
    /\ UNCHANGED <<tree, node, i, thru, out, searcher, result>>

\* backpropagate(node, payout), and on to the next iteration
Backpropagate ==
    /\ pc = "backpropagate"
    /\ tree' = backpropagate(tree, node, payout)
    /\ thru' = ThruAfter(node, payout)
    /\ calls' = Append(calls, Call("backpropagate", node, NoNode, payout))
    /\ pc' = "select"
    /\ i' = i + 1
    /\ UNCHANGED <<boards, node, payout, out, searcher, result>>

\* the loop left as soon as select comes back with a node without moves
LoopExit_on_terminal ==
    /\ pc = "select"
    /\ i = MaxIter \/ (i > 0 /\ is_terminal(tree, select(tree, root)))
    /\ pc' = "done"
    /\ UNCHANGED <<tree, boards, node, payout, i, thru, calls, out, searcher, result>>

\* range(...) is exhausted
LoopExit ==
    /\ pc = "select"
    /\ i = MaxIter
    /\ pc' = "done"
    /\ UNCHANGED <<tree, boards, node, payout, i, thru, calls, out, searcher, result>>

\* the report cell, run once the loop is over; the first row raises when the
\* divisor is zero
Report ==
    /\ pc = "done"
    /\ LET rows == report(tree, boards)
       IN  IF \E r \in 1..Len(rows) : rows[r].share = ZeroDivisionError
           THEN pc' = "crashed" /\ out' = <<>>
           ELSE pc' = "reported" /\ out' = rows
    /\ UNCHANGED <<tree, boards, node, payout, i, thru, calls, searcher, result>>

Next == Select \/ Expand \/ Simulate \/ Backpropagate \/ LoopExit \/ Report

Spec == Init /\ [][Next]_vars

\* control leaves the statement it is at
Advance == /\ pc \in {"select", "if", "simulate", "backpropagate"}
           /\ pc' \in {"select", "if", "simulate", "backpropagate",
                       "done", "crashed"} \ {pc}

\* The loop runs on one thread without suspension points: control does not
\* rest at a statement forever.  Select, LoopExit and Backpropagate assign
\* the values of total functions and can run wherever control is at them;
\* that Expand or Simulate can is checked with C13.
SpecFair == Spec /\ WF_pc(Advance)

\* ---------------------------------------------- the functions called freely
\* Any of the four functions is called on any node of the tree, in any order.
InitOps == /\ pc = "call"
           /\ \E pos \in RootPositions(OpsPile) :
              \E o \in Shuffles(legal_moves(pos)) : InitTree(pos, o)

CallSelect(n) ==
    /\ pc = "call" /\ i < MaxOps
    /\ calls' = <<Call("select", n, select(tree, n), 0)>>
    /\ i' = i + 1
    /\ UNCHANGED <<tree, boards, pc, node, payout, thru, out, searcher, result>>

CallExpand(n) ==
    /\ pc = "call" /\ i < MaxOps
    /\ \E e \in expand(tree, boards, n) :
              /\ tree' = e.tree
              /\ boards' = e.boards
              /\ thru' = ThruWith(e.tree)
              /\ calls' = <<Call("expand", n, e.ret, 0)>>
    /\ i' = i + 1
    /\ UNCHANGED <<pc, node, payout, out, searcher, result>>

CallSimulate(n) ==
    /\ pc = "call" /\ i < MaxOps
    /\ \E s \in simulate(tree, boards, n) :
          /\ boards' = s.boards
          /\ calls' = <<Call("simulate", n, NoNode, s.ret)>>
    /\ i' = i + 1
    /\ UNCHANGED <<tree, pc, node, payout, thru, out, searcher, result>>

CallBackpropagate(n, p) ==
    /\ pc = "call" /\ i < MaxOps
    /\ tree' = backpropagate(tree, n, p)
    /\ thru' = ThruAfter(n, p)
    /\ calls' = <<Call("backpropagate", n, NoNode, p)>>
    /\ i' = i + 1
    /\ UNCHANGED <<boards, pc, node, payout, out, searcher, result>>

NextOps == \/ \E n \in Nodes : CallSelect(n)
           \/ \E n \in Nodes : CallExpand(n)
           \/ \E n \in Nodes : CallSimulate(n)
           \/ \E n \in Nodes, p \in 0..2 : CallBackpropagate(n, p)

SpecOps == InitOps /\ [][NextOps]_vars

\* ------------------------------------------- the running mean on one node
\* backpropagate is called MaxK times on a childless root, with any payouts.
InitMean == /\ pc = "mean"
            /\ InitTree([pile |-> 0, turn |-> WHITE, clock |-> 0, stack |-> <<>>], <<>>)

MeanStep(p) ==
    /\ pc = "mean" /\ i < MaxK
    /\ tree' = backpropagate(tree, root, p)
    /\ thru' = ThruAfter(root, p)
    /\ calls' = <<Call("backpropagate", root, NoNode, p)>>
    /\ i' = i + 1
    /\ UNCHANGED <<boards, pc, node, payout, out, searcher, result>>

NextMean == \E p \in 0..2 : MeanStep(p)

SpecMean == InitMean /\ [][NextMean]_vars

\* ------------------------------------------------- the transposition cache
\* ChessCache: a least-recently-used cache that counts its hits and misses.
\* data holds the entries from the least to the most recently used.
ChessCache(maxsize) == [maxsize |-> maxsize, data |-> <<>>,
                        hits |-> 0, misses |-> 0]

Miss == [hit |-> FALSE]

Has(d, k) == \E j \in 1..Len(d) : d[j].key = k

Without(d, k) == SelectSeq(d, LAMBDA e : e.key # k)

ValueOf(d, k) == d[CHOOSE j \in 1..Len(d) : d[j].key = k].value

\* get that leaves the order of use as it was
cache_get_no_touch(c, k) ==
    IF Has(c.data, k)
    THEN [cache |-> [c EXCEPT !.hits = @ + 1],
          ret   |-> [hit |-> TRUE, value |-> ValueOf(c.data, k)]]
    ELSE [cache |-> [c EXCEPT !.misses = @ + 1], ret |-> Miss]

\* get that counts a miss as nothing
cache_get_uncounted_miss(c, k) ==
    IF Has(c.data, k)
    THEN [cache |-> [c EXCEPT !.hits = @ + 1,
                              !.data = Append(Without(@, k),
                                  [key |-> k, value |-> ValueOf(c.data, k)])],
          ret   |-> [hit |-> TRUE, value |-> ValueOf(c.data, k)]]
    ELSE [cache |-> c, ret |-> Miss]

\* get(key): the value or a miss; a hit makes the key the most recently used
cache_get(c, k) ==
    IF Has(c.data, k)
    THEN [cache |-> [c EXCEPT !.hits = @ + 1,
                              !.data = Append(Without(@, k),
                                  [key |-> k, value |-> ValueOf(c.data, k)])],
          ret   |-> [hit |-> TRUE, value |-> ValueOf(c.data, k)]]
    ELSE [cache |-> [c EXCEPT !.misses = @ + 1], ret |-> Miss]

\* put that makes room only when the cache is over its capacity
cache_put_late_evict(c, k, v) ==
    LET d    == c.data
        kept == IF Has(d, k) THEN Without(d, k)
                ELSE IF Len(d) > c.maxsize THEN Tail(d) ELSE d
    IN  [c EXCEPT !.data = Append(kept, [key |-> k, value |-> v])]

\* put(key, value): at capacity the least recently used entry is evicted
\* before the new key is inserted; the key put is the most recently used
cache_put(c, k, v) ==
    LET d    == c.data
        kept == IF Has(d, k) THEN Without(d, k)
                ELSE IF Len(d) >= c.maxsize THEN Tail(d) ELSE d
    IN  [c EXCEPT !.data = Append(kept, [key |-> k, value |-> v])]

\* ------------------------------------------------------ alpha-beta search
\* the cache key: placement and side to move, without the clock
fingerprint(pos) == [pile |-> pos.pile, turn |-> pos.turn]

\* SimpleEvaluator stand-in: the material on the board, positive for White
evaluate(pos) == IF pos.turn = WHITE THEN pos.pile ELSE 0 - pos.pile

\* AlphaBetaSearcher(evaluator, depth=..., cachesize=...)
AlphaBetaSearcher(depth, cachesize) ==
    [depth |-> depth, cache |-> ChessCache(cachesize)]

\* isTerminal(position) of the Position Adapter: no legal move is left
isTerminal(pos) == Len(legal_moves(pos)) = 0

Max(a, b) == IF a > b THEN a ELSE b

\* the leaf with the Evaluator invoked before the cache is consulted
leaf_evaluate_first(c, pos, ev) ==
    LET k == fingerprint(pos)
        s == evaluate(pos)
        g == cache_get(c, k)
        e == ev \o <<Call("evaluate", pos, NoNode, s),
                     Call("get", k, NoNode, IF g.ret.hit THEN 1 ELSE 0)>>
    IN  IF g.ret.hit
        THEN [score |-> g.ret.value, cache |-> g.cache, events |-> e]
        ELSE [score  |-> s,
              cache  |-> cache_put(g.cache, k, s),
              events |-> Append(e, Call("put", k, NoNode, s))]

\* at the depth limit or at a terminal position: the cache is consulted
\* with the fingerprint; on a miss the Evaluator is invoked and its score
\* inserted.  ev is the history of cache and Evaluator calls so far.
leaf(c, pos, ev) ==
    LET k == fingerprint(pos)
        g == cache_get(c, k)
    IN  IF g.ret.hit
        THEN [score  |-> g.ret.value,
              cache  |-> g.cache,
              events |-> Append(ev, Call("get", k, NoNode, 1))]
        ELSE LET s == evaluate(pos)
             IN  [score  |-> s,
                  cache  |-> cache_put(g.cache, k, s),
                  events |-> ev \o <<Call("get", k, NoNode, 0),
                                     Call("evaluate", pos, NoNode, s),
                                     Call("put", k, NoNode, s)>>]

RECURSIVE alphabeta(_, _, _, _, _, _)
RECURSIVE search_moves(_, _, _, _, _, _, _, _)

\* the moves of pos from the j-th on, White maximizing and Black
\* minimizing, cut off once alpha >= beta
search_moves(c, pos, depth, alpha, beta, j, best, ev) ==
    IF j > Len(legal_moves(pos)) \/ alpha >= beta
    THEN [score |-> best, cache |-> c, events |-> ev]
    ELSE LET r  == alphabeta(c, push(pos, legal_moves(pos)[j]), depth - 1,
                             alpha, beta, ev)
             b2 == IF pos.turn = WHITE THEN Max(best, r.score)
                                       ELSE Min(best, r.score)
         IN  search_moves(r.cache, pos, depth,
                          IF pos.turn = WHITE THEN Max(alpha, b2) ELSE alpha,
                          IF pos.turn = WHITE THEN beta ELSE Min(beta, b2),
                          j + 1, b2, r.events)

alphabeta(c, pos, depth, alpha, beta, ev) ==
    IF depth = 0 \/ isTerminal(pos) THEN leaf(c, pos, ev)
    ELSE search_moves(c, pos, depth, alpha, beta, 1,
                      IF pos.turn = WHITE THEN 0 - Inf ELSE Inf, ev)

\* searcher.search(board): what it returns (the notebook shows a bare
\* score), the searcher afterwards, and the history of the calls it made
search(s, pos) ==
    LET r == alphabeta(s.cache, pos, s.depth, 0 - Inf, Inf, <<>>)
    IN  [ret      |-> [score |-> r.score],
         searcher |-> [s EXCEPT !.cache = r.cache],
         events   |-> r.events]

\* the positions searches and cache keys are taken from
SearchPositions == RootPositions(OpsPile)

\* a state in which only the searcher exists
InitSearcher(s) ==
    /\ searcher = s
    /\ result = <<>>
    /\ tree = <<>> /\ boards = <<>> /\ thru = <<>>
    /\ node = NoNode /\ payout = 0 /\ i = 0
    /\ calls = <<>> /\ out = <<>>

\* ------------------------------------------ the cache called freely
\* searcher.cache is used directly: any gets and puts in any order.
InitCache == /\ pc = "cache"
             /\ \E n \in 1..MaxCache :
                   InitSearcher(AlphaBetaSearcher(0, n))

CacheGet(k) ==
    /\ pc = "cache" /\ i < MaxCalls
    /\ LET g == cache_get(searcher.cache, k)
       IN  /\ searcher' = [searcher EXCEPT !.cache = g.cache]
           /\ result' = g.ret
    /\ calls' = Append(calls, Call("get", k, NoNode, 0))
    /\ i' = i + 1
    /\ UNCHANGED <<tree, boards, pc, node, payout, thru, out>>

CachePut(k, v) ==
    /\ pc = "cache" /\ i < MaxCalls
    /\ searcher' = [searcher EXCEPT !.cache = cache_put(@, k, v)]
    /\ result' = <<>>
    /\ calls' = Append(calls, Call("put", k, NoNode, v))
    /\ i' = i + 1
    /\ UNCHANGED <<tree, boards, pc, node, payout, thru, out>>

NextCache == \/ \E p \in SearchPositions : CacheGet(fingerprint(p))
             \/ \E p \in SearchPositions : \E v \in {0, evaluate(p)} :
                   CachePut(fingerprint(p), v)

SpecCache == InitCache /\ [][NextCache]_vars

\* ------------------------------------------- searches with one searcher
\* searcher.search(board) is called on one board after another; the cache
\* lives as long as the searcher.
InitSearch == /\ pc = "search"
              /\ \E d \in 0..MaxDepth, n \in 1..MaxCache :
                    InitSearcher(AlphaBetaSearcher(d, n))

Search(pos) ==
    /\ pc = "search" /\ i < MaxSearches
    /\ LET r == search(searcher, pos)
       IN  /\ searcher' = r.searcher
           /\ result' = r.ret
           /\ calls' = <<Call("search", pos, NoNode, r.ret.score)>> \o r.events
    /\ i' = i + 1
    /\ UNCHANGED <<tree, boards, pc, node, payout, thru, out>>

NextSearch == \E pos \in SearchPositions : Search(pos)

SpecSearch == InitSearch /\ [][NextSearch]_vars

\* ================================================================ claims
Last(c) == c[Len(c)]

\* a step of SpecOps that calls op
Called(op) == i' # i /\ calls'[1].op = op

\* the iteration whose calls are c ran to its end in the order of the loop
Complete(c) ==
    /\ Len(c) \in {3, 4}
    /\ c[1].op = "select" /\ c[1].arg = root
    /\ Len(c) = 4 => c[2].op = "expand" /\ c[2].arg = c[1].ret
    /\ c[Len(c) - 1].op = "simulate"
    /\ c[Len(c) - 1].arg = (IF Len(c) = 4 THEN c[2].ret ELSE c[1].ret)
    /\ Last(c).op = "backpropagate"
    /\ Last(c).arg = c[Len(c) - 1].arg
    /\ Last(c).val = c[Len(c) - 1].val

C1_Shape == (pc \in {"select", "done"} /\ i > 0) => Complete(calls)

C1_Step ==
    pc = "if" =>
        LET visited_leaf == Len(tree[node].unexplored_moves) > 0
                            /\ tree[node].visit_count > 0
        IN  /\ visited_leaf <=> Last(calls').op = "expand"
            /\ Last(calls').arg = node
            /\ ~visited_leaf => Last(calls').op = "simulate"

\* C1: in every iteration expand is called on the node select(root) returned
\* if and only if that node has a non-empty frontier and was visited before,
\* otherwise simulate runs on the selected node itself; either way the
\* iteration is one simulate followed by one backpropagate of its payout
\* from the node that was simulated.
C1_IterationProtocol == [](C1_Shape) /\ [][C1_Step]_vars

C1_Witness == pc = "select" /\ i > 1 /\ Len(calls) = 4

\* C2: from any node of the tree select returns a node that is a leaf or
\* terminal, and every node it passed through before has an empty frontier
\* and at least one child.
C2_SelectStopsAtFirst ==
    \A n \in Nodes :
        LET r == select(tree, n)
        IN  /\ r \in Nodes
            /\ IsPrefix(n, r)
            /\ \/ Len(tree[r].unexplored_moves) # 0
               \/ Len(tree[r].unexplored_moves) = 0 /\ Len(tree[r].children) = 0
            /\ \A m \in Nodes :
                  (IsPrefix(n, m) /\ IsPrefix(m, r) /\ m # r) =>
                      /\ Len(tree[m].unexplored_moves) = 0
                      /\ Len(tree[m].children) >= 1

C2_Witness == Len(select(tree, root)) >= 2

ChildrenOf(n) == {tree[n].children[j].node : j \in 1..Len(tree[n].children)}

\* C3: no child has been visited twice while a sibling is still unvisited.
C3_UnvisitedFirst ==
    \A n \in Nodes : \A c, d \in ChildrenOf(n) :
        ~(tree[c].visit_count >= 2 /\ tree[d].visit_count = 0)

C3_Witness ==
    \E n \in Nodes :
        /\ Cardinality(ChildrenOf(n)) >= 3
        /\ \E c \in ChildrenOf(n) : tree[c].visit_count >= 2

\* C4: expand on a node with m >= 1 frontier moves makes exactly m new
\* nodes, one per frontier move, each stored in children under its move with
\* the node as parent, empties the frontier, and returns the child made last
\* (for the move popped last).
C4_Step ==
    (Called("expand") /\ Len(tree[calls'[1].arg].unexplored_moves) >= 1) =>
        LET n  == calls'[1].arg
            um == tree[n].unexplored_moves
            ch == tree'[n].children
        IN  /\ Cardinality(Nodes' \ Nodes) = Len(um)
            /\ tree'[n].unexplored_moves = <<>>
            /\ Len(ch) = Len(tree[n].children) + Len(um)
            /\ \A j \in 1..Len(um) :
                  \E k \in 1..Len(ch) :
                      /\ ch[k].move = um[j]
                      /\ ch[k].node \in Nodes' \ Nodes
                      /\ tree'[ch[k].node].parent = n
                      /\ \A l \in 1..Len(ch) : ch[l].move = um[j] => l = k
            /\ Last(ch).move = um[1]
            /\ calls'[1].ret = Last(ch).node

C4_ExpandMakesAllChildren == [][C4_Step]_vars

C4_Witness ==
    /\ pc = "call" /\ i > 0
    /\ calls[1].op = "expand" /\ calls[1].ret # Unbound
    /\ Len(tree[calls[1].arg].children) >= 2

\* C5: expand on a node whose frontier is already empty raises: no node is
\* returned, and the tree is left as it was.
C5_Step ==
    (Called("expand") /\ Len(tree[calls'[1].arg].unexplored_moves) = 0) =>
        /\ calls'[1].ret = Unbound
        /\ tree' = tree
        /\ boards' = boards

C5_ExpandOnEmptyFrontierRaises == [][C5_Step]_vars

C5_Witness ==
    /\ pc = "call" /\ i > 0
    /\ calls[1].op = "expand" /\ calls[1].ret = Unbound
    /\ Len(tree[calls[1].arg].children) >= 1

\* C6: the visit count of every node is the number of payouts that were
\* backpropagated through it.
C6_VisitCountIsPayoutCount ==
    \A n \in Nodes : tree[n].visit_count = thru[n].cnt

C6_Witness ==
    /\ pc = "call"
    /\ \E n, m \in Nodes : /\ tree[n].visit_count >= 2
                           /\ tree[m].visit_count = 1
                           /\ tree[m].parent = n

\* sum(payouts) / k in doubles: the naive mean of k payouts with sum s halves
NaiveMean(s, k) == FDiv(MulSmall(FHalf, s), k)

\* (k + 1) * 2^-52: three roundings of at most 2^-53 each per update, of
\* which the share left after k updates sums to less than this
Tolerance(k) == <<(k + 1) * 2^8>>

Close(X, Y, k) == /\ FLeq(X, AddBig(Y, Tolerance(k)))
                  /\ FLeq(Y, AddBig(X, Tolerance(k)))

\* C7 as stated: the running mean is the same double as the naive mean.
C7_MeanIsExact ==
    \A n \in Nodes :
        thru[n].cnt >= 1 =>
            tree[n].average_evaluation = NaiveMean(thru[n].sum, thru[n].cnt)

\* C7 (amended): after k >= 1 payouts the running mean and the naive mean
\* sum/k agree within floating-point tolerance, (k + 1) * 2^-52.
C7_MeanWithinTolerance ==
    \A n \in Nodes :
        thru[n].cnt >= 1 =>
            Close(tree[n].average_evaluation,
                  NaiveMean(thru[n].sum, thru[n].cnt), thru[n].cnt)

C7_Witness ==
    /\ pc = "mean"
    /\ thru[root].cnt = MaxK
    /\ tree[root].average_evaluation # NaiveMean(thru[root].sum, thru[root].cnt)

\* C8: backpropagate(node, payout) folds the unchanged payout once into node
\* and into each ancestor up to the root; all other statistics, and every
\* frontier and children map, stay as they were.
C8_Step ==
    Called("backpropagate") =>
        LET n == calls'[1].arg
            p == calls'[1].val
        IN  /\ Nodes' = Nodes
            /\ \A m \in Nodes :
                  /\ tree'[m].unexplored_moves = tree[m].unexplored_moves
                  /\ tree'[m].children = tree[m].children
                  /\ tree'[m].parent = tree[m].parent
                  /\ IF IsPrefix(m, n)
                     THEN /\ tree'[m].visit_count = tree[m].visit_count + 1
                          /\ tree'[m].average_evaluation =
                                 mean_update(tree[m].average_evaluation,
                                             tree[m].visit_count, p)
                     ELSE /\ tree'[m].visit_count = tree[m].visit_count
                          /\ tree'[m].average_evaluation = tree[m].average_evaluation

C8_BackpropagatePath == [][C8_Step]_vars

C8_Witness ==
    /\ pc = "call" /\ i > 0
    /\ calls[1].op = "backpropagate" /\ calls[1].val # 1
    /\ Len(calls[1].arg) >= 1
    /\ \E m \in Nodes : ~IsPrefix(m, calls[1].arg)

\* C9: on a root without legal moves the search runs no iteration: nothing
\* is simulated or backpropagated and the root keeps visit count 0.
C9_TerminalRootRunsNothing ==
    (Len(tree[root].unexplored_moves) = 0 /\ Len(tree[root].children) = 0) =>
        /\ tree[root].visit_count = 0
        /\ \A j \in 1..Len(calls) : calls[j].op \notin {"simulate", "backpropagate"}

\* C10: simulate leaves every node and every node's board as they were.
C10_Step == Called("simulate") => (tree' = tree /\ boards' = boards)

C10_SimulateIsPure == [][C10_Step]_vars

C10_Witness ==
    /\ pc = "call" /\ i > 0
    /\ calls[1].op = "simulate"
    /\ outcome(boards[tree[calls[1].arg].board]) = NoOutcome

\* the moves a board on position fin was pushed after it held position pos
Played(pos, fin) == SubSeq(fin.stack, Len(pos.stack) + 1, Len(fin.stack))

\* the position after the first j moves of ms are pushed on pos
RECURSIVE After(_, _, _)
After(pos, ms, j) == IF j = 0 THEN pos ELSE push(After(pos, ms, j - 1), ms[j])

\* C11: simulate(node) plays legal moves from the node's position through
\* undecided positions only and stops on the first position with a decided
\* outcome, whose payout it returns: 1 for a White win, 0 for a Black win,
\* 0.5 without a winner (here in halves); a node whose own position is
\* decided gets that position's payout and no move is played.
C11_SimulatePayout ==
    \A n \in Nodes : \A s \in simulate(tree, boards, n) :
        LET pos == boards[tree[n].board]
            ms  == Played(pos, s.board)
            at(j) == After(pos, ms, j)
            w   == outcome(s.board).winner
        IN  /\ IsPrefix(pos.stack, s.board.stack)
            /\ at(Len(ms)) = s.board
            /\ \A j \in 0..(Len(ms) - 1) :
                  /\ outcome(at(j)) = NoOutcome
                  /\ ms[j + 1] \in Range(legal_moves(at(j)))
            /\ outcome(s.board) # NoOutcome
            /\ s.ret \in {0, 1, 2}
            /\ s.ret = (IF w = WHITE THEN 2 ELSE IF w = BLACK THEN 0 ELSE 1)
            /\ outcome(pos) # NoOutcome => ms = <<>>

C11_Witness ==
    /\ \E n \in Nodes : /\ outcome(boards[tree[n].board]) # NoOutcome
                         /\ legal_moves(boards[tree[n].board]) # <<>>
    /\ \E n \in Nodes : \E s, r \in simulate(tree, boards, n) :
          /\ Len(Played(boards[tree[n].board], s.board)) >= 2
          /\ s.ret # r.ret

\* C12 is a statement about two runs; in this model every operation is an
\* operator of the state and of the random draws it is given, so that two
\* runs with the same draws agree is true by the form of the definitions.

C13_Counts == ~is_terminal(tree, root) =>
                  /\ pc # "crashed"
                  /\ tree[root].visit_count = i
                  /\ pc = "done" => i = MaxIter
                  /\ pc \in {"if", "simulate"} => ENABLED (Expand \/ Simulate)

C13_Step == ~is_terminal(tree, root) =>
                /\ i' # i => (pc = "backpropagate" /\ i' = i + 1)
                /\ pc' = "done" => i = MaxIter
                /\ pc \in {"done", "reported"} => (i' = i /\ tree' = tree)

C13_Stops == ~is_terminal(tree, root) => <>(pc = "done")

\* C13: on a root that is not terminal the loop completes exactly MaxIter
\* iterations and then stops, never earlier: the root's visit count goes up
\* by one with each completed iteration and is MaxIter at the end.
C13_ExactBudget == [](C13_Counts) /\ [][C13_Step]_vars /\ C13_Stops

C13_Witness == /\ pc = "done"
               /\ tree[root].visit_count = MaxIter
               /\ Len(tree[root].children) >= 2

RECURSIVE SumTo(_, _)
SumTo(f, j) == IF j = 0 THEN 0 ELSE SumTo(f, j - 1) + f[j]

\* C14: when the report has run on a root with children, no division by
\* zero happened; the rows are the root's children, each once with its visit
\* count, in non-increasing order of visit count; and with D the sum of the
\* rows' visit counts, D > 0 and every share is the double for
\* visit_count / D and lies between 0 and 1: the shares are parts of a whole.
C14_VisitShares ==
    (pc \in {"reported", "crashed"} /\ i = MaxIter /\ Len(tree[root].children) > 0) =>
        LET ch == tree[root].children
            D  == SumTo([r \in 1..Len(out) |-> out[r].visit_count], Len(out))
        IN  /\ pc = "reported"
            /\ Len(out) = Len(ch)
            /\ \A j \in 1..Len(ch) : \E r \in 1..Len(out) :
                  /\ out[r].move = ch[j].move
                  /\ out[r].visit_count = tree[ch[j].node].visit_count
                  /\ \A q \in 1..Len(out) : out[q].move = ch[j].move => q = r
            /\ \A r \in 1..(Len(out) - 1) :
                  out[r].visit_count >= out[r + 1].visit_count
            /\ D > 0
            /\ \A r \in 1..Len(out) :
                  /\ out[r].share = FDiv(MulSmall(FOne, out[r].visit_count), D)
                  /\ FLeq(FZero, out[r].share) /\ FLeq(out[r].share, FOne)

C14_Witness ==
    /\ pc = "reported" /\ Len(out) >= 3
    /\ out[1].visit_count > out[2].visit_count
    /\ out[2].visit_count > out[3].visit_count
    /\ out[1].move # tree[root].children[1].move

\* the siblings of node m, itself included
Siblings(m) == ChildrenOf(tree[m].parent)

\* from node a down to node b every step goes to a child whose visit count
\* no sibling exceeds, and b has no children
MostVisitedWalk(a, b) ==
    /\ a \in Nodes /\ b \in Nodes /\ IsPrefix(a, b)
    /\ Len(tree[b].children) = 0
    /\ \A m \in Nodes :
          (IsPrefix(a, m) /\ IsPrefix(m, b) /\ m # a) =>
              /\ tree[m].parent = SubSeq(m, 1, Len(m) - 1)
              /\ \A c \in Siblings(m) : tree[c].visit_count <= tree[m].visit_count

\* C15: the line reported for an opening is the game that leads to the node
\* reached from that opening by stepping to a most-visited child until a
\* node without children; the line of the first row is the walk of that kind
\* from the root; every walk is shorter than the tree has nodes.
C15_PrincipalVariation ==
    (pc = "reported" /\ Len(out) > 0) =>
        /\ \A r \in 1..Len(out) :
              /\ out[r].line \in Nodes
              /\ boards[tree[out[r].line].board].stack = out[r].line
              /\ MostVisitedWalk(<<out[r].move>>, out[r].line)
              /\ Len(out[r].line) < Cardinality(Nodes)
        /\ MostVisitedWalk(root, out[1].line)

C15_Witness ==
    /\ pc = "reported"
    /\ \E r \in 1..Len(out) :
          /\ Len(out[r].line) >= 2
          /\ \E c \in Siblings(out[r].line) :
                 tree[c].visit_count < tree[out[r].line].visit_count

\* the keys the cache holds
KeysIn(c) == {c.data[j].key : j \in 1..Len(c.data)}

\* the place in the log of the latest get or put of key k
LastUse(log, k) ==
    LET at == {j \in 1..Len(log) : log[j].arg = k}
    IN  CHOOSE j \in at : \A l \in at : l <= j

\* the cached keys whose latest use is the oldest
LeastRecentlyUsed(c, log) ==
    {k \in KeysIn(c) : \A l \in KeysIn(c) : LastUse(log, k) <= LastUse(log, l)}

C16_Step ==
    (i' # i /\ Last(calls').op = "put") =>
        LET c    == searcher.cache
            k    == Last(calls').arg
            full == Cardinality(KeysIn(c)) = c.maxsize
            gone == KeysIn(c) \ KeysIn(searcher'.cache)
        IN  /\ k \in KeysIn(searcher'.cache)
            /\ KeysIn(searcher'.cache) \subseteq KeysIn(c) \cup {k}
            /\ IF full /\ k \notin KeysIn(c)
               THEN gone = LeastRecentlyUsed(c, calls) /\ Cardinality(gone) = 1
               ELSE gone = {}
            /\ \A l \in KeysIn(searcher'.cache) \ {k} :
                  ValueOf(searcher'.cache.data, l) = ValueOf(c.data, l)

\* C16: a put of a new key into a full cache evicts exactly the one key
\* whose latest get or put lies furthest back, and no other; any other put
\* evicts nothing.  (Capacity N filled by N distinct keys, then one more.)
C16_EvictsLeastRecentlyUsed == [][C16_Step]_vars

C16_Witness ==
    /\ pc = "cache" /\ Len(calls) >= 4
    /\ Last(calls).op = "put"
    /\ calls[1].op = "put" /\ calls[1].arg \in KeysIn(searcher.cache)
    /\ calls[2].op = "put" /\ calls[2].arg \notin KeysIn(searcher.cache)
    /\ Len(searcher.cache.data) = MaxCache

\* the gets in a log
Gets(log) == {j \in 1..Len(log) : log[j].op = "get"}

C18_Counts == pc = "cache" =>
                  searcher.cache.hits + searcher.cache.misses
                      = Cardinality(Gets(calls))

C18_Step ==
    LET c == searcher.cache
        d == searcher'.cache
    IN  /\ d.hits >= c.hits /\ d.misses >= c.misses
        /\ (i' # i /\ Last(calls').op = "get") =>
              /\ (d.hits - c.hits) + (d.misses - c.misses) = 1
              /\ d.hits = c.hits + 1 <=> Last(calls').arg \in KeysIn(c)
              /\ result'.hit <=> d.hits = c.hits + 1
        /\ (i' # i /\ Last(calls').op = "put") =>
              (d.hits = c.hits /\ d.misses = c.misses)

\* C18: hits and misses never go down, every get adds one to exactly one of
\* them (to hits when the key is in the cache), a put adds to neither, and
\* hits + misses is the number of gets made so far.
C18_HitMissCounters == [](C18_Counts) /\ [][C18_Step]_vars

C18_Witness ==
    /\ pc = "cache"
    /\ searcher.cache.hits >= 1 /\ searcher.cache.misses >= 1
    /\ \E j \in 1..Len(calls) :
          /\ calls[j].op = "put"
          /\ Last(calls).op = "get" /\ Last(calls).arg = calls[j].arg
          /\ ~result.hit

C17_Bounded == pc = "search" =>
                   /\ Len(searcher.cache.data) <= searcher.cache.maxsize
                   /\ Cardinality(KeysIn(searcher.cache)) = Len(searcher.cache.data)

\* C17: over any number of searches with one searcher the cache never holds
\* more entries than the capacity it was built with, which never changes;
\* no key is held twice.
C17_AtMostCapacity ==
    [](C17_Bounded) /\ [][searcher'.cache.maxsize = searcher.cache.maxsize]_vars

C17_Witness ==
    /\ pc = "search" /\ i >= 2
    /\ Len(searcher.cache.data) = searcher.cache.maxsize
    /\ searcher.cache.maxsize = MaxCache
    /\ searcher.cache.misses > searcher.cache.maxsize
    /\ searcher.cache.hits >= 1

\* C19: search returns a best move, legal in the position searched, and
\* its score.
C19_ReturnsMoveAndScore ==
    (pc = "search" /\ i > 0) =>
        /\ DOMAIN result = {"move", "score"}
        /\ ~isTerminal(calls[1].arg) =>
               result.move \in Range(legal_moves(calls[1].arg))

\* C20: no search invokes the Evaluator on a terminal position, and a search
\* of a position whose side to move is mated returns a score that is a loss
\* for that side.
C20_NoEvaluatorOnTerminal ==
    (pc = "search" /\ i > 0) =>
        /\ \A j \in 1..Len(calls) :
              calls[j].op = "evaluate" => ~isTerminal(calls[j].arg)
        /\ LET pos == calls[1].arg
           IN  (isTerminal(pos) /\ outcome(pos).winner \in {WHITE, BLACK}) =>
                   IF pos.turn = WHITE THEN result.score < 0
                                       ELSE result.score > 0

\* the calls of a search from the j-th on are those of one leaf after
\* another: a get that hits, or a get that misses followed by one call of the
\* Evaluator on a position with that fingerprint and a put of its score
\* under the same key
RECURSIVE LeafCalls(_, _)
LeafCalls(ev, j) ==
    IF j > Len(ev) THEN TRUE
    ELSE /\ ev[j].op = "get"
         /\ DOMAIN ev[j].arg = {"pile", "turn"}
         /\ IF ev[j].val = 1 THEN LeafCalls(ev, j + 1)
            ELSE /\ j + 2 <= Len(ev)
                 /\ ev[j + 1].op = "evaluate"
                 /\ fingerprint(ev[j + 1].arg) = ev[j].arg
                 /\ ev[j + 2].op = "put"
                 /\ ev[j + 2].arg = ev[j].arg
                 /\ ev[j + 2].val = ev[j + 1].val
                 /\ LeafCalls(ev, j + 3)

C21_Calls == (pc = "search" /\ i > 0) => LeafCalls(calls, 2)

\* a search whose root is at the depth limit: the key is the fingerprint of
\* the position; a key the cache holds gives its score with no call of the
\* Evaluator, any other key one call of the Evaluator whose score is
\* returned and afterwards held under the key
C21_Step ==
    (pc = "search" /\ i' = i + 1 /\ searcher.depth = 0) =>
        LET pos == calls'[1].arg
            k   == fingerprint(pos)
        IN  /\ calls'[2].op = "get" /\ calls'[2].arg = k
            /\ IF Has(searcher.cache.data, k)
               THEN /\ Len(calls') = 2
                    /\ result'.score = ValueOf(searcher.cache.data, k)
               ELSE /\ Len(calls') = 4
                    /\ calls'[3].op = "evaluate" /\ calls'[3].arg = pos
                    /\ result'.score = calls'[3].val
                    /\ Has(searcher'.cache.data, k)
                    /\ ValueOf(searcher'.cache.data, k) = calls'[3].val

\* C21: at every leaf at the depth limit the cache is consulted with the
\* fingerprint of the position before the Evaluator; a hit uses the cached
\* score without the Evaluator, a miss calls the Evaluator once and inserts
\* its score under that fingerprint, a key without the remaining depth.
C21_LeafCacheProtocol == [](C21_Calls) /\ [][C21_Step]_vars

\* a search two plies deep, with leaves that hit and leaves that miss, by a
\* searcher that has searched before
C21_Witness ==
    /\ pc = "search" /\ i >= 2 /\ searcher.depth = MaxDepth
    /\ \E j \in 2..Len(calls) : calls[j].op = "get" /\ calls[j].val = 1
    /\ \E j \in 2..Len(calls) : calls[j].op = "evaluate"

\* the moves in the frontier of n, the moves its children are stored under,
\* and the legal moves of its position
Frontier(n) == Range(tree[n].unexplored_moves)
ChildMoves(n) == {tree[n].children[j].move : j \in 1..Len(tree[n].children)}
LegalAt(n) == Range(legal_moves(boards[tree[n].board]))

\* C22: between operations, in every node the frontier and the keys of the
\* children map are disjoint, together they are the legal moves of the
\* node's position, and one of the two is empty; a node has an empty
\* frontier and no children exactly if its position has no legal move.
C22_FrontierChildrenPartition ==
    pc = "call" =>
        \A n \in Nodes :
            /\ Frontier(n) \cap ChildMoves(n) = {}
            /\ Frontier(n) \cup ChildMoves(n) = LegalAt(n)
            /\ Frontier(n) = {} \/ ChildMoves(n) = {}
            /\ Cardinality(Frontier(n)) = Len(tree[n].unexplored_moves)
            /\ Cardinality(ChildMoves(n)) = Len(tree[n].children)
            /\ is_terminal(tree, n) <=> LegalAt(n) = {}

\* a tree with an expanded node of two children, one of them with its
\* frontier and one without legal moves
C22_Witness ==
    /\ pc = "call"
    /\ \E n, c, d \in Nodes :
          /\ Cardinality(ChildMoves(n)) = 2 /\ Frontier(n) = {}
          /\ tree[c].parent = n /\ Frontier(c) # {} /\ ChildMoves(c) = {}
          /\ tree[d].parent = n /\ is_terminal(tree, d)

\* node n of tree t hangs on the root by the children maps
Reachable(t, n) ==
    \A j \in 1..Len(n) :
        LET p == SubSeq(n, 1, j - 1)
        IN  /\ p \in DOMAIN t
            /\ \E e \in 1..Len(t[p].children) :
                  /\ t[p].children[e].move = n[j]
                  /\ t[p].children[e].node = SubSeq(n, 1, j)

C23_Step ==
    \A n \in Nodes :
        /\ n \in DOMAIN tree'
        /\ Range(tree'[n].unexplored_moves) \subseteq Range(tree[n].unexplored_moves)
        /\ Len(tree'[n].unexplored_moves) <= Len(tree[n].unexplored_moves)
        /\ IsPrefix(tree[n].children, tree'[n].children)
        /\ tree'[n].parent = tree[n].parent
        /\ Reachable(tree, n) => Reachable(tree', n)

\* C23: whatever is called on whatever node, a frontier only loses moves (an
\* empty one stays empty), a children map keeps every child it has under
\* the same move, the parent link of a node of the tree stays what it is,
\* and every node that hangs on the root keeps hanging on it.
C23_MonotoneLifecycle ==
    [](pc = "call" => \A n \in Nodes : Reachable(tree, n)) /\ [][C23_Step]_vars

\* a node expanded after its parent was: the parent went through a later
\* call with its children in place
C23_Witness ==
    /\ pc = "call" /\ i = MaxOps
    /\ \E n, c \in Nodes :
          /\ tree[c].parent = n
          /\ Len(tree[n].children) = 2 /\ Len(tree[n].unexplored_moves) = 0
          /\ Len(tree[c].children) > 0 /\ Len(tree[c].unexplored_moves) = 0

C24_Step ==
    \A n \in Nodes :
        /\ tree'[n].board = tree[n].board
        /\ boards'[tree[n].board] = boards[tree[n].board]

C24_Children ==
    pc = "call" =>
        \A n \in Nodes : \A j \in 1..Len(tree[n].children) :
            LET e == tree[n].children[j]
            IN  boards[tree[e.node].board] = push(boards[tree[n].board], e.move)

\* C24: whatever is called on whatever node, every node keeps its board
\* object and that board keeps its position, the parent's under expand
\* included; the position of a child stored under move m is the position of
\* its parent with m pushed, and nothing more.
C24_PositionsImmutable == [](C24_Children) /\ [][C24_Step]_vars

\* simulate has just played moves from the position of a child, on a copy
C24_Witness ==
    /\ pc = "call" /\ i >= 2
    /\ calls[1].op = "simulate"
    /\ LET n == calls[1].arg
       IN  /\ tree[n].parent # NoNode
           /\ Len(tree[tree[n].parent].children) = 2
           /\ outcome(boards[tree[n].board]) = NoOutcome

\* after an iteration, every node with children has one visit more than its
\* children together
C25_NodeIdentity ==
    pc \in {"select", "done"} =>
        \A n \in Nodes :
            Len(tree[n].children) > 0 =>
                tree[n].visit_count = 1 + total_visits(tree, tree[n].children)

\* C25: from a fresh root, after every iteration each node with children has
\* visit_count = 1 + the sum of its children's visit counts, and after
\* k >= 1 iterations the visit counts of the root's children sum to k - 1.
C25_VisitIdentity ==
    /\ C25_NodeIdentity
    /\ (pc \in {"select", "done"} /\ i >= 1) =>
           total_visits(tree, tree[root].children) = i - 1

C26_Frontier ==
    pc \in {"select", "done"} =>
        \A n \in Nodes :
            /\ Len(tree[n].unexplored_moves) > 0 => tree[n].visit_count \in {0, 1}
            /\ (tree[n].visit_count >= 2 /\ Len(tree[n].children) = 0) =>
                   LegalAt(n) = {}

\* a node gets children in a step only if it is the node just selected, at
\* its second selection; and the node selected for the second time, if its
\* position has legal moves, gets children in the next step
C26_Step ==
    /\ \A n \in Nodes :
          (Len(tree[n].children) = 0 /\ Len(tree'[n].children) > 0) =>
              /\ pc = "if" /\ node = n /\ calls[1].ret = n
              /\ tree[n].visit_count = 1 /\ thru[n].cnt = 1
    /\ (pc = "if" /\ tree[node].visit_count = 1 /\ LegalAt(node) # {}) =>
           (Len(tree[node].children) = 0 /\ Len(tree'[node].children) > 0)

\* C26: from a fresh root, after every iteration a node with a non-empty
\* frontier has visit_count 0 or 1; a node gets its children exactly in the
\* iteration that selects it while its visit_count is 1; a node that has
\* two or more visits and no children has a position without legal moves.
C26_FrontierVisits == [](C26_Frontier) /\ [][C26_Step]_vars

\* below the root: a node that got children, a node without legal moves
\* visited more than once, and a node in its frontier state visited once
C26_Witness ==
    /\ pc = "select"
    /\ \E n, m, l \in Nodes \ {root} :
          /\ Len(tree[n].children) > 0
          /\ LegalAt(m) = {} /\ tree[m].visit_count >= 2
          /\ Len(tree[l].unexplored_moves) > 0 /\ tree[l].visit_count = 1

\* the nodes whose children select(n) scores with uct on its way down
RECURSIVE SelectPath(_, _)
SelectPath(t, n) ==
    IF is_leaf(t, n) \/ is_terminal(t, n) THEN {}
    ELSE IF \E j \in 1..Len(t[n].children) : uct_raises(t, t[n].children[j].node, n)
         THEN {n}
    ELSE {n} \cup SelectPath(t, max_child(t, n))

\* C27: when select(root) is about to run in the loop, every visited child
\* in the tree, so every one uct can be evaluated for, has a parent with at
\* least one visit more and so at least two: math.log gets an argument
\* >= 1, sqrt one >= 0, the divisor is not zero, and select does not raise.
C27_UctDomainSafe ==
    (pc = "select" /\ i < MaxIter) =>
        /\ \A n \in Nodes :
              \A j \in 1..Len(tree[n].children) :
                  LET c == tree[n].children[j].node
                  IN  tree[c].visit_count > 0 =>
                          /\ tree[n].visit_count >= tree[c].visit_count + 1
                          /\ tree[c].visit_count + 1 >= 2
                          /\ TwoLn[tree[n].visit_count] >= 0
                          /\ ~uct_raises(tree, c, n)
        /\ select(tree, root) # ValueError

\* select is about to score the children of the root, all of them visited
\* and one of them more than once; below the root there is a visited child
\* too
C27_Witness ==
    /\ pc = "select" /\ i < MaxIter
    /\ SelectPath(tree, root) = {root}
    /\ Len(tree[root].children) >= 2
    /\ \A j \in 1..Len(tree[root].children) :
          tree[tree[root].children[j].node].visit_count > 0
    /\ \E j \in 1..Len(tree[root].children) :
          tree[tree[root].children[j].node].visit_count >= 2
    /\ \E n \in Nodes \ {root} : \E j \in 1..Len(tree[n].children) :
          tree[tree[n].children[j].node].visit_count > 0

\* C28: the loop creates no child beneath a position whose outcome is
\* decided by the test simulate uses, claimable draws included: every node
\* with children has an undecided position.
C28_NoChildrenUnderDecided ==
    \A n \in Nodes :
        Len(tree[n].children) > 0 => outcome(boards[tree[n].board]) = NoOutcome
====
